---- MODULE Spec2Model ----
(***************************************************************************)
(* Model of the AddressInput component (places autocomplete, geolocation   *)
(* flow, manual-entry fallback) of the klear form-input library.           *)
(*                                                                         *)
(* One component instance is modelled from its first render to the end of  *)
(* its lifetime.  Every action is one JavaScript task: an event handler, a *)
(* React effect, a timer callback or the continuation of an awaited        *)
(* promise.  React state set by a task is visible to the next task.        *)
(*                                                                         *)
(* The form widgets of the library (AsyncInputSelect, InputBadges,         *)
(* InputMultiSelect, MultiImageInput) are modelled by a second             *)
(* specification, SpecWidgets, over the widget variables.                  *)
(***************************************************************************)
EXTENDS Integers, Sequences, FiniteSets, TLC

----------------------------------------------------------------------------
(* Bounds of the model *)

\* number of select / clear operations of the user in one lifetime
MaxSelects == 2

\* number of input-change events of the search box in one lifetime
MaxTyped == 2

\* number of user operations on the Select in one lifetime
MaxUserOps == 3

\* number of user operations on a form widget in one lifetime
MaxWidgetOps == 3

\* prop maxFiles of MultiImageInput, as configured in the model
maxFiles == 2

\* prop maxFileSize of MultiImageInput in MB, as configured in the model
maxFileSize == 1

\* number of characters of the path handed to getNestedError
MaxPathLen == 3

----------------------------------------------------------------------------
(* Values *)

\* the JavaScript value undefined
Undefined == "<undefined>"

\* the {lat: 0, lng: 0} position the code writes when it has no coordinate
Sentinel == [lat |-> 0, lng |-> 0]

\* a field that holds no value at all (field.value is undefined)
NoValue == [unset |-> TRUE]

\* JavaScript truthiness of a string-or-undefined value
Truthy(x) == x \notin {Undefined, ""}

\* field.value?.address
AddressOf(v) == IF "address" \in DOMAIN v THEN v.address ELSE Undefined

\* option?.placeId
PlaceIdOf(o) == IF "placeId" \in DOMAIN o THEN o.placeId ELSE Undefined

\* option.description
DescriptionOf(o) == IF "description" \in DOMAIN o THEN o.description ELSE Undefined

\* the values the form may hold for the field when the component mounts
InitialValues ==
  { NoValue,
    [address |-> "", position |-> Sentinel],
    [address |-> "A0", position |-> [lat |-> 17, lng |-> 78]] }

\* the suggestions the autocomplete provider offers in the menu
Suggestions ==
  { [id |-> "s1", description |-> "D1", placeId |-> "p1"],
    [id |-> "s2", description |-> "D2", placeId |-> "p2"] }

\* the results geocodeByPlaceId may deliver: with and without a location
PlaceResults ==
  { [formatted_address |-> "A1", hasLocation |-> TRUE, lat |-> 18, lng |-> 73],
    [formatted_address |-> "A2", hasLocation |-> FALSE, lat |-> 0, lng |-> 0] }

\* the outcomes of geocodeByPlaceId: rejection, no result, one result
PlaceResponses ==
  { [ok |-> FALSE, results |-> <<>>], [ok |-> TRUE, results |-> <<>>] }
  \cup { [ok |-> TRUE, results |-> <<r>>] : r \in PlaceResults }

\* the results the reverse geocoder may deliver
ReverseResults ==
  { [formatted_address |-> "G1", place_id |-> "pg", lat |-> 19, lng |-> 72],
    [formatted_address |-> "G2", place_id |-> "", lat |-> 19, lng |-> 72] }

\* the (results, status) pairs the reverse geocoder may call back with
ReverseResponses ==
  { [status |-> "ZERO_RESULTS", results |-> <<>>],
    [status |-> "OK", results |-> <<>>],
    [status |-> "ERROR", results |-> <<>>] }
  \cup { [status |-> "OK", results |-> <<r>>] : r \in ReverseResults }

\* the texts the user may type into the search box
TypedTexts == { "", "t1" }

\* no response: the write did not come from a place resolution
NoResponse == [ok |-> FALSE, results |-> <<"none">>]

\* no option: the write did not come from handleSelect
NoOption == [none |-> TRUE]

\* the JavaScript values an errors object is made of: undefined, null, a
\* string, and an object with its property message and its other properties
\* (a function from keys to values; a key is the sequence of its characters)
JsUndefined == [kind |-> "undefined"]
JsNull == [kind |-> "null"]
Str(s) == [kind |-> "string", str |-> s]
Obj(message, properties) ==
  [kind |-> "object", message |-> message, props |-> properties]

\* the characters of a field name
PathChars == { "a", "b", "." }

\* the keys "a", "b", "" and "a.b"
KeyA == << "a" >>
KeyB == << "b" >>
KeyEmpty == << >>
KeyAB == << "a", ".", "b" >>

\* a field error as react-hook-form stores it
FieldError(m) == Obj(Str(m), << >>)

\* the values of form?.formState.errors: absent (no form), null, no error,
\* errors of flat and nested fields, nodes without a message, a null and an
\* undefined entry, a string entry, a key that holds a dot, an empty key
ErrorsObjects ==
  { JsUndefined,
    JsNull,
    Obj(JsUndefined, << >>),
    Obj(JsUndefined, KeyA :> FieldError("m1")),
    Obj(JsUndefined, KeyA :> Obj(JsUndefined, KeyB :> FieldError("m2"))),
    Obj(JsUndefined, KeyA :> Obj(Str("m1"), KeyB :> FieldError("m2"))),
    Obj(JsUndefined, (KeyA :> JsNull) @@ (KeyB :> FieldError("m3"))),
    Obj(JsUndefined, KeyA :> Obj(Str("m1"), KeyB :> JsUndefined)),
    Obj(JsUndefined, KeyA :> Str("text")),
    Obj(JsUndefined, (KeyAB :> FieldError("m4")) @@ (KeyA :> FieldError("m1"))),
    Obj(Str("m0"), (KeyEmpty :> FieldError("m5"))
                     @@ (KeyA :> Obj(JsUndefined, KeyEmpty :> FieldError("m6")))) }

----------------------------------------------------------------------------
VARIABLES
  autoDetectLocation,    \* prop inputProps.autoDetectLocation
  geolocationSupported,  \* whether navigator.geolocation exists
  initialValue,          \* prop field: the value of the field at mount
  loadPc,                \* position of the maps-API load effect
  apiLoaded,             \* useState apiLoaded
  locationState,         \* useState locationState
  hasRequestedLocation,  \* useState hasRequestedLocation
  geoPc,                 \* position of handleAutoLocation
  attempts,              \* number of geolocation attempts started
  detected,              \* the value handleAutoLocation wrote on success
  choseInFlight,         \* the user chose an address during an attempt
  timer,                 \* the 500 ms auto-detect timer is armed
  elapsed,               \* the 500 ms of the armed timer have passed
  state,                 \* useState state: the suggestion list state
  effectPending,         \* the effect on [state] has not run for this state
  inflight,              \* options whose geocodeByPlaceId call is pending
  value,                 \* useState value: the query text
  pendingQuery,          \* an autocomplete query awaits the provider
  allowManualInput,      \* useState allowManualInput
  providerErrored,       \* the autocomplete provider has reported an error
  fieldValue,            \* the bound field value (field.value)
  lastWrite,             \* the last call of field.onChange and its cause
  unhandled,             \* an error has escaped a handler
  geocodeCalls,          \* number of geocodeByPlaceId calls made
  providerInputs,        \* number of calls of the provider's input handler
  selects,               \* number of select / clear operations made
  typed,                 \* number of input-change events of the search box
  blurs,                 \* number of input-blur events of the search box
  lastInput              \* the last (inputValue, action) of onInputChange

VARIABLES
  component,             \* the component that is mounted
  hasForm,               \* useFormContext() returns a form
  wDisabled,             \* prop disabled of the widget
  wStatus,               \* the widget is unmounted, rendered, or threw
  wError,                \* the message of the error thrown by the render
  wValue,                \* the field value bound to the widget
  wWrites,               \* number of field.onChange calls of the widget
  wCount,                \* InputBadges: useState selectedCount
  wErrors,               \* MultiImageInput: useState errors
  isDragOver,            \* MultiImageInput: useState isDragOver
  wLast,                 \* the last user operation on the widget
  wOps                   \* number of user operations on the widget

VARIABLES
  errors,                \* form?.formState.errors
  path,                  \* the path handed to getNestedError, as characters
  lookupPc,              \* the lookup is unmounted, ready or done
  lookupResult           \* what the call of getNestedError gave

lookupVars == << errors, path, lookupPc, lookupResult >>

widgetVars == << component, hasForm, wDisabled, wStatus, wError, wValue,
                 wWrites, wCount, wErrors, isDragOver, wLast, wOps >>

addressVars == << autoDetectLocation, geolocationSupported, initialValue, loadPc,
           apiLoaded, locationState, hasRequestedLocation, geoPc, attempts,
           detected, choseInFlight, timer, elapsed, state,
           effectPending, inflight, value, pendingQuery, allowManualInput,
           providerErrored, fieldValue, lastWrite, unhandled, geocodeCalls,
           providerInputs, selects, typed, blurs, lastInput >>

vars == << addressVars, widgetVars, lookupVars >>

props == << autoDetectLocation, geolocationSupported, initialValue >>
loadVars == << loadPc, apiLoaded >>
geoVars == << locationState, hasRequestedLocation, geoPc, attempts, detected >>
queryVars == << value, pendingQuery, providerInputs, typed, blurs, lastInput >>
manualVars == << allowManualInput, providerErrored >>

----------------------------------------------------------------------------
(* Pure parts of the component *)

\* useState<Suggestion[]>([field?.value?.address && {...}])
InitialState(v) ==
  IF Truthy(AddressOf(v))
    THEN << [id |-> "initial-id", description |-> AddressOf(v), placeId |-> ""] >>
    ELSE << [falsy |-> AddressOf(v)] >>

\* variant of NeedsGeocode: tests the identifier against undefined only
NeedsGeocode_Defined(option) == PlaceIdOf(option) # Undefined

\* handleSelect: the branch that awaits geocodeByPlaceId is taken
NeedsGeocode(option) == Truthy(PlaceIdOf(option))

\* handleSelect, !option?.placeId: the value written without a provider call
SelectImmediate(option) ==
  IF PlaceIdOf(option) = ""
    THEN [address |-> "", position |-> Sentinel]
    ELSE [address |-> Undefined, position |-> Sentinel]

\* handleSelect, the fallback of the else branch and of the catch block
SelectFallback(option) ==
  [address |-> DescriptionOf(option), position |-> Sentinel]

\* variant of PositionOf: the resolved location is dropped
PositionOf_Dropped(r) == Sentinel

\* response[0].geometry?.location?.toJSON() || {lat: 0, lng: 0}
PositionOf(r) ==
  IF r.hasLocation THEN [lat |-> r.lat, lng |-> r.lng] ELSE Sentinel

\* variant of SelectResolved: the await is outside the try block, so a
\* rejection writes nothing and leaves handleSelect as an error
SelectResolved_NoCatch(option, response) ==
  IF response.ok
    THEN IF Len(response.results) > 0
           THEN [val |-> [address |-> response.results[1].formatted_address,
                          position |-> PositionOf(response.results[1])],
                 escapes |-> FALSE]
           ELSE [val |-> SelectFallback(option), escapes |-> FALSE]
    ELSE [val |-> fieldValue, escapes |-> TRUE]

\* handleSelect after the await: the value written and the error that escapes
SelectResolved(option, response) ==
  IF response.ok
    THEN IF Len(response.results) > 0
           THEN [val |-> [address |-> response.results[1].formatted_address,
                          position |-> PositionOf(response.results[1])],
                 escapes |-> FALSE]
           ELSE [val |-> SelectFallback(option), escapes |-> FALSE]
    ELSE [val |-> SelectFallback(option), escapes |-> FALSE]

\* variant of NoSelectionValue: the cleared list writes an empty address
NoSelectionValue_Empty == [address |-> "", position |-> Sentinel]

\* variant of Issue: a new call cancels the calls still pending
Issue_CancelPrevious(pending, option) == << option >>

\* handleSelect calls geocodeByPlaceId: the calls pending afterwards
Issue(pending, option) == Append(pending, option)

\* variant of EffectRerunsAfterOwnWrite: field.onChange is a new function
\* after every write, so handleFieldChange changes and the effect re-runs
EffectRerunsAfterOwnWrite_Unstable == TRUE

\* the effect on [state, handleFieldChange] runs again after its own write:
\* handleFieldChange is memoised on field.onChange, which keeps its identity
EffectRerunsAfterOwnWrite == FALSE

\* variant of OnChangeState: the selected option is added to the list
OnChangeState_Append(v) ==
  IF "placeId" \in DOMAIN v THEN Append(state, v) ELSE << >>

\* Select onChange: the list state set for the value handed over
OnChangeState(v) == IF "placeId" \in DOMAIN v THEN << v >> ELSE << >>

\* the effect on [state], state.length === 0: the value written
NoSelectionValue == [address |-> Undefined, position |-> Sentinel]

\* variant of ManualValue: the typed text is written without a position
ManualValue_NoPosition(inputValue) == [address |-> inputValue]

\* onInputChange: the value written for typed text in manual-input mode
ManualValue(inputValue) == [address |-> inputValue, position |-> Sentinel]

\* variant of WritesManual: the wrong react-select action is tested
WritesManual_SetValue(manual, action) == manual /\ action = "set-value"

\* onInputChange: the condition under which typed text is written
WritesManual(manual, action) == manual /\ action = "input-change"

\* variant of ForwardsInput: the provider is not queried in manual mode
ForwardsInput_Suppressed(manual, action) == ~manual

\* onInputChange: the input is handed to the provider's input handler
ForwardsInput(manual, action) == TRUE

\* variant of StateAfterFix: the flow skips the geocoding state
StateAfterFix_Skipped == "success"

\* handleAutoLocation: the location state set once the position is known
StateAfterFix == "geocoding"

\* variant of CatchState: the catch block reports the error state
CatchState_Error == "error"

\* handleAutoLocation, the catch block: the location state it sets
CatchState == "idle"

\* the geocoder callback resolves the promise
ReverseOk(resp) == resp.status = "OK" /\ Len(resp.results) > 0

\* handleAutoLocation: the value written for the first reverse-geocode result
DetectedValue(r) ==
  [address |-> r.formatted_address, position |-> [lat |-> r.lat, lng |-> r.lng]]

\* variant of DetectedEntry: the description holds the main text only
DetectedEntry_MainText(r) ==
  [id |-> "detected-location", description |-> "main", placeId |-> r.place_id]

\* handleAutoLocation: the synthetic suggestion put into the list state
DetectedEntry(r) ==
  [id |-> "detected-location", description |-> r.formatted_address,
   placeId |-> r.place_id]

\* variant of LoadFailureEscapes: the load promise has no catch handler
LoadFailureEscapes_NoCatch == TRUE

\* the load effect: a rejection of loadGoogleMapsApi() is left unhandled
LoadFailureEscapes == FALSE

\* variant of AutoDetectCond: hasRequestedLocation is not consulted
AutoDetectCond_Retry(auto, loaded, v, requested, ls) ==
  auto /\ loaded /\ ~Truthy(AddressOf(v)) /\ ls = "idle"

\* variant of AutoDetectCond: the bound address is not consulted
AutoDetectCond_AnyAddress(auto, loaded, v, requested, ls) ==
  auto /\ loaded /\ ~requested /\ ls = "idle"

\* the condition of the auto-detect effect
AutoDetectCond(auto, loaded, v, requested, ls) ==
  auto /\ loaded /\ ~Truthy(AddressOf(v)) /\ ~requested /\ ls = "idle"

\* the auto-detect effect re-runs after the commit: its cleanup clears the
\* timer, and a new timer of 500 ms is armed exactly when the condition
\* holds for the committed values
Rearm ==
  /\ timer' = AutoDetectCond(autoDetectLocation', apiLoaded', fieldValue',
                             hasRequestedLocation', locationState')
  /\ elapsed' = FALSE

\* the render returns the Select (true) or the "Loading maps..." box (false)
InputRendered == apiLoaded

\* field.onChange(v), recorded with its cause
Write(src, option, response, v) ==
  /\ fieldValue' = v
  /\ lastWrite' = [src |-> src, opt |-> option, resp |-> response, val |-> v]

----------------------------------------------------------------------------
\* a field value of a widget: an array of items, or a value that is no array
ArrayValue(items) == [isArray |-> TRUE, items |-> items]
NotAnArray == [isArray |-> FALSE, items |-> << >>]

\* no form widget is mounted
WidgetsUnmounted ==
  /\ hasForm = TRUE
  /\ wDisabled = FALSE
  /\ wStatus = "unmounted"
  /\ wError = ""
  /\ wValue = NotAnArray
  /\ wWrites = 0
  /\ wCount = 0
  /\ wErrors = << >>
  /\ isDragOver = FALSE
  /\ wLast = [op |-> "none"]
  /\ wOps = 0

\* no lookup of an error is modelled
LookupUnmounted ==
  /\ errors = JsUndefined
  /\ path = << >>
  /\ lookupPc = "unmounted"
  /\ lookupResult = [threw |-> FALSE, val |-> JsUndefined]

Init ==
  /\ component = "AddressInput"
  /\ WidgetsUnmounted
  /\ LookupUnmounted
  /\ autoDetectLocation \in BOOLEAN
  /\ geolocationSupported \in BOOLEAN
  /\ loadPc = "mount"
  /\ apiLoaded = FALSE
  /\ locationState = "idle"
  /\ hasRequestedLocation = FALSE
  /\ geoPc = "none"
  /\ attempts = 0
  /\ detected = NoValue
  /\ choseInFlight = FALSE
  /\ timer = FALSE
  /\ elapsed = FALSE
  /\ initialValue \in InitialValues
  /\ fieldValue = initialValue
  /\ state = InitialState(fieldValue)
  /\ effectPending = TRUE
  /\ inflight = <<>>
  /\ value = ""
  /\ pendingQuery = FALSE
  /\ allowManualInput = FALSE
  /\ providerErrored = FALSE
  /\ lastWrite = [src |-> "none", opt |-> NoOption, resp |-> NoResponse,
                  val |-> fieldValue]
  /\ unhandled = FALSE
  /\ geocodeCalls = 0
  /\ providerInputs = 0
  /\ selects = 0
  /\ typed = 0
  /\ blurs = 0
  /\ lastInput = [action |-> "none", inputValue |-> ""]

----------------------------------------------------------------------------
(* Loading the maps API *)

\* the mount effect: the API is already there, or loadGoogleMapsApi() starts
LoadEffect ==
  /\ loadPc = "mount"
  /\ \E present \in BOOLEAN :
       IF present
         THEN apiLoaded' = TRUE /\ loadPc' = "done"
         ELSE apiLoaded' = FALSE /\ loadPc' = "loading"
  /\ UNCHANGED << props, choseInFlight,
                  geoVars, state, effectPending, inflight, queryVars,
                  manualVars, fieldValue, lastWrite, unhandled, geocodeCalls,
                  selects >>
  /\ Rearm
  /\ UNCHANGED << widgetVars, lookupVars >>

\* loadGoogleMapsApi().then
LoadResolved ==
  /\ loadPc = "loading"
  /\ apiLoaded' = TRUE
  /\ loadPc' = "done"
  /\ UNCHANGED << props, choseInFlight,
                  geoVars, state, effectPending, inflight, queryVars,
                  manualVars, fieldValue, lastWrite, unhandled, geocodeCalls,
                  selects >>
  /\ Rearm
  /\ UNCHANGED << widgetVars, lookupVars >>

\* loadGoogleMapsApi().catch
LoadRejected ==
  /\ loadPc = "loading"
  /\ loadPc' = "failed"
  /\ unhandled' = (unhandled \/ LoadFailureEscapes)
  /\ UNCHANGED << props, choseInFlight,
                  apiLoaded, geoVars, state, effectPending, inflight,
                  queryVars, manualVars, fieldValue, lastWrite, geocodeCalls,
                  selects >>
  /\ Rearm
  /\ UNCHANGED << widgetVars, lookupVars >>

----------------------------------------------------------------------------
(* The effect on [state, handleFieldChange] and handleSelect *)

\* the effect runs for the committed state: it writes the no-selection
\* value, or calls handleSelect(state[0]), which writes at once or calls
\* geocodeByPlaceId and awaits it
StateEffect ==
  /\ effectPending
  /\ IF Len(state) = 0
       THEN /\ Write("effect-empty", NoOption, NoResponse, NoSelectionValue)
            /\ effectPending' = EffectRerunsAfterOwnWrite
            /\ UNCHANGED << inflight, geocodeCalls >>
       ELSE IF NeedsGeocode(state[1])
         THEN /\ inflight' = Issue(inflight, state[1])
              /\ geocodeCalls' = geocodeCalls + 1
              /\ effectPending' = FALSE
              /\ UNCHANGED << fieldValue, lastWrite >>
         ELSE /\ Write("select-immediate", state[1], NoResponse,
                       SelectImmediate(state[1]))
              /\ effectPending' = EffectRerunsAfterOwnWrite
              /\ UNCHANGED << inflight, geocodeCalls >>
  /\ UNCHANGED << props, choseInFlight,
                  loadVars, geoVars, state, queryVars, manualVars,
                  unhandled, selects >>
  /\ Rearm
  /\ UNCHANGED << widgetVars, lookupVars >>

\* the sequence s without its i-th element
RemoveAt(s, i) == [j \in 1..(Len(s) - 1) |-> IF j < i THEN s[j] ELSE s[j + 1]]

\* a pending geocodeByPlaceId call settles and handleSelect continues;
\* calls settle in any order
PlaceResolved ==
  /\ \E i \in 1..Len(inflight), response \in PlaceResponses :
       LET r == SelectResolved(inflight[i], response) IN
         /\ Write("resolve", inflight[i], response, r.val)
         /\ unhandled' = (unhandled \/ r.escapes)
         /\ inflight' = RemoveAt(inflight, i)
  /\ UNCHANGED << props, choseInFlight,
                  loadVars, geoVars, state, effectPending, queryVars,
                  manualVars, geocodeCalls, selects >>
  /\ Rearm
  /\ UNCHANGED << widgetVars, lookupVars >>

----------------------------------------------------------------------------
(* The Select: choosing, clearing, typing *)

\* Select onChange with an option of the menu
SelectOption ==
  /\ InputRendered
  /\ ~effectPending
  /\ selects < MaxSelects
  /\ selects + typed + blurs < MaxUserOps
  /\ \E o \in Suggestions : state' = OnChangeState(o)
  /\ effectPending' = TRUE
  /\ selects' = selects + 1
  /\ choseInFlight' = (choseInFlight \/ geoPc # "none")
  /\ UNCHANGED << props, loadVars, geoVars, inflight, queryVars, manualVars,
                  fieldValue, lastWrite, unhandled, geocodeCalls >>
  /\ Rearm
  /\ UNCHANGED << widgetVars, lookupVars >>

\* Select onChange with no value: the user clears the shown selection
ClearSelection ==
  /\ InputRendered
  /\ ~effectPending
  /\ selects < MaxSelects
  /\ selects + typed + blurs < MaxUserOps
  /\ Len(state) > 0
  /\ "placeId" \in DOMAIN state[1]
  /\ state' = OnChangeState(NoOption)
  /\ effectPending' = TRUE
  /\ selects' = selects + 1
  /\ UNCHANGED << props, choseInFlight,
                  loadVars, geoVars, inflight, queryVars, manualVars,
                  fieldValue, lastWrite, unhandled, geocodeCalls >>
  /\ Rearm
  /\ UNCHANGED << widgetVars, lookupVars >>

\* Select onInputChange(inputValue, actionMeta) for typed text
\* (input-change) and for the reset of the box on blur (input-blur)
InputChange ==
  /\ InputRendered
  /\ ~effectPending
  /\ typed + blurs < MaxTyped
  /\ selects + typed + blurs < MaxUserOps
  /\ \E action \in {"input-change", "input-blur"} :
     \E inputValue \in (IF action = "input-change" THEN TypedTexts ELSE {""}) :
       /\ lastInput' = [action |-> action, inputValue |-> inputValue]
       /\ IF action = "input-change"
            THEN typed' = typed + 1 /\ blurs' = blurs
            ELSE blurs' = blurs + 1 /\ typed' = typed
       /\ IF WritesManual(allowManualInput, action)
            THEN /\ Write("manual", NoOption, NoResponse,
                          ManualValue(inputValue))
                 /\ choseInFlight' = (choseInFlight \/ geoPc # "none")
            ELSE UNCHANGED << fieldValue, lastWrite, choseInFlight >>
       /\ IF ForwardsInput(allowManualInput, action)
            THEN /\ value' = inputValue
                 /\ providerInputs' = providerInputs + 1
                 /\ pendingQuery' = (inputValue # "")
            ELSE UNCHANGED << value, providerInputs, pendingQuery >>
  /\ UNCHANGED << props, loadVars, geoVars, state, effectPending, inflight,
                  manualVars, unhandled, geocodeCalls, selects >>
  /\ Rearm
  /\ UNCHANGED << widgetVars, lookupVars >>

\* the provider answers the query with suggestions
QueryAnswered ==
  /\ pendingQuery
  /\ pendingQuery' = FALSE
  /\ UNCHANGED << props, choseInFlight,
                  loadVars, geoVars, state, effectPending, inflight,
                  value, providerInputs, typed, blurs, lastInput, manualVars,
                  fieldValue,
                  lastWrite, unhandled, geocodeCalls, selects >>
  /\ Rearm
  /\ UNCHANGED << widgetVars, lookupVars >>

\* PlacesAutocomplete onError
QueryFailed ==
  /\ pendingQuery
  /\ pendingQuery' = FALSE
  /\ allowManualInput' = TRUE
  /\ providerErrored' = TRUE
  /\ UNCHANGED << props, choseInFlight,
                  loadVars, geoVars, state, effectPending, inflight,
                  value, providerInputs, typed, blurs, lastInput, fieldValue,
                  lastWrite, unhandled, geocodeCalls, selects >>
  /\ Rearm
  /\ UNCHANGED << widgetVars, lookupVars >>

----------------------------------------------------------------------------
(* The geolocation flow: handleAutoLocation *)

\* the 500 ms of the armed auto-detect timer pass without a re-run of the
\* effect
TimerElapse ==
  /\ timer
  /\ ~elapsed
  /\ elapsed' = TRUE
  /\ UNCHANGED << props, choseInFlight,
                  loadVars, geoVars, timer, state, effectPending,
                  inflight, queryVars, manualVars, fieldValue, lastWrite,
                  unhandled, geocodeCalls, selects >>
  /\ UNCHANGED << widgetVars, lookupVars >>

\* the timer of the auto-detect effect fires and handleAutoLocation starts
AutoLocationStart ==
  /\ timer
  /\ elapsed
  /\ geoPc = "none"
  /\ IF ~autoDetectLocation \/ ~apiLoaded
       THEN UNCHANGED geoVars
       ELSE /\ locationState' = "requesting"
            /\ hasRequestedLocation' = TRUE
            /\ geoPc' = "executor"
            /\ attempts' = attempts + 1
            /\ detected' = detected
  /\ UNCHANGED << props, choseInFlight,
                  loadVars, state, effectPending, inflight, queryVars,
                  manualVars, fieldValue, lastWrite, unhandled, geocodeCalls,
                  selects >>
  /\ Rearm
  /\ UNCHANGED << widgetVars, lookupVars >>

\* the executor of the position promise: reject without navigator.geolocation,
\* else getCurrentPosition is called
PositionRequested ==
  /\ geoPc = "executor"
  /\ IF geolocationSupported
       THEN locationState' = "detecting" /\ geoPc' = "position"
       ELSE locationState' = CatchState /\ geoPc' = "none"
  /\ UNCHANGED << props, choseInFlight,
                  loadVars, hasRequestedLocation, attempts,
                  detected, state,
                  effectPending,
                  inflight, queryVars, manualVars, fieldValue, lastWrite,
                  unhandled, geocodeCalls, selects >>
  /\ Rearm
  /\ UNCHANGED << widgetVars, lookupVars >>

\* getCurrentPosition calls resolve: the geocoder is asked for the address
PositionFixed ==
  /\ geoPc = "position"
  /\ locationState' = StateAfterFix
  /\ geoPc' = "geocode"
  /\ UNCHANGED << props, choseInFlight,
                  loadVars, hasRequestedLocation, attempts,
                  detected, state,
                  effectPending,
                  inflight, queryVars, manualVars, fieldValue, lastWrite,
                  unhandled, geocodeCalls, selects >>
  /\ Rearm
  /\ UNCHANGED << widgetVars, lookupVars >>

\* getCurrentPosition calls reject (permission denied, timeout): the catch
PositionFailed ==
  /\ geoPc = "position"
  /\ locationState' = CatchState
  /\ geoPc' = "none"
  /\ UNCHANGED << props, choseInFlight,
                  loadVars, hasRequestedLocation, attempts,
                  detected, state,
                  effectPending,
                  inflight, queryVars, manualVars, fieldValue, lastWrite,
                  unhandled, geocodeCalls, selects >>
  /\ Rearm
  /\ UNCHANGED << widgetVars, lookupVars >>

\* the geocoder calls back: on OK with a result the field and the list state
\* are set and then the state becomes success; otherwise the catch
ReverseGeocoded ==
  /\ geoPc = "geocode"
  /\ ~effectPending
  /\ geoPc' = "none"
  /\ \E resp \in ReverseResponses :
       IF ReverseOk(resp)
         THEN /\ Write("geolocation", NoOption, resp,
                       DetectedValue(resp.results[1]))
              /\ detected' = DetectedValue(resp.results[1])
              /\ state' = << DetectedEntry(resp.results[1]) >>
              /\ effectPending' = TRUE
              /\ locationState' = "success"
         ELSE /\ locationState' = CatchState
              /\ UNCHANGED << fieldValue, lastWrite, state, effectPending,
                              detected >>
  /\ UNCHANGED << props, choseInFlight,
                  loadVars, hasRequestedLocation, attempts,
                  inflight,
                  queryVars,
                  manualVars, unhandled, geocodeCalls, selects >>
  /\ Rearm
  /\ UNCHANGED << widgetVars, lookupVars >>

----------------------------------------------------------------------------
Next ==
  \/ LoadEffect
  \/ LoadResolved
  \/ LoadRejected
  \/ StateEffect
  \/ PlaceResolved
  \/ SelectOption
  \/ ClearSelection
  \/ InputChange
  \/ QueryAnswered
  \/ QueryFailed
  \/ TimerElapse
  \/ AutoLocationStart
  \/ PositionRequested
  \/ PositionFixed
  \/ PositionFailed
  \/ ReverseGeocoded

Spec == Init /\ [][Next]_vars

\* the scheduling of the browser: an armed timer elapses and its callback
\* runs, and a pending effect runs
FairSpec ==
  /\ Spec
  /\ WF_vars(TimerElapse)
  /\ WF_vars(AutoLocationStart)
  /\ WF_vars(StateEffect)

----------------------------------------------------------------------------
(* The form widgets *)

\* the widgets that require a form context
Widgets ==
  { "AsyncInputSelect", "InputBadges", "InputMultiSelect", "MultiImageInput" }

\* prop options of InputBadges and InputMultiSelect: the option values
OptionValues == { "o1", "o2" }

\* prop acceptedTypes of MultiImageInput (its default)
acceptedTypes == << "image/jpeg", "image/jpg", "image/png", "image/webp" >>

\* acceptedTypes.join(", ")
AcceptedJoined == "image/jpeg, image/jpg, image/png, image/webp"

\* maxFileSize * 1024 * 1024
SizeLimit == maxFileSize * 1024 * 1024

\* the files the user may drop or pick
Files ==
  { [name |-> "a.png", type |-> "image/png", size |-> SizeLimit],
    [name |-> "b.webp", type |-> "image/webp", size |-> 10],
    [name |-> "c.gif", type |-> "image/gif", size |-> 10],
    [name |-> "d.jpg", type |-> "image/jpeg", size |-> SizeLimit + 1],
    [name |-> "e.gif", type |-> "image/gif", size |-> SizeLimit + 1] }

\* the FileLists of a drop or of the file input: up to two files
FileLists ==
  { << >> } \cup { << f >> : f \in Files }
  \cup { << f, g >> : f \in Files, g \in Files }

\* the field values a widget may be mounted on
InitialWidgetValues(c) ==
  IF c = "MultiImageInput"
    THEN { NotAnArray, ArrayValue(<< >>),
           ArrayValue(<< [name |-> "b.webp", type |-> "image/webp",
                          size |-> 10] >>) }
    ELSE { NotAnArray, ArrayValue(<< >>), ArrayValue(<< "o1" >>) }

\* variant of ThrowsWithoutForm: InputBadges does not test the form context
ThrowsWithoutForm_BadgesUnchecked(c, form) == ~form /\ c # "InputBadges"

\* if (!form) throw new Error(...), present in each of the four widgets
ThrowsWithoutForm(c, form) == ~form

\* the message of the error thrown without a form context
ErrorMessage(c) == c \o " must be used within a FormProvider"

\* Array.isArray(field.value) ? field.value : []
CurrentItems(v) == IF v.isArray THEN v.items ELSE << >>

\* InputBadges: isSelected of an option
IsSelected(v, option) ==
  IF v.isArray THEN \E i \in 1..Len(v.items) : v.items[i] = option ELSE FALSE

\* InputBadges: currentValues.filter(val => val !== option.value) or
\* [...currentValues, option.value]
ToggledValues(v, option) ==
  IF IsSelected(v, option)
    THEN SelectSeq(CurrentItems(v), LAMBDA val : val # option)
    ELSE Append(CurrentItems(v), option)

\* InputBadges onClick: the handler goes on to toggle the option
ClickToggles(disabled) == ~disabled

\* variant of KeyToggles: the key handler does not test disabled
KeyToggles_IgnoresDisabled(disabled, key) == key \in {"Enter", " "}

\* InputBadges onKeyDown: the handler goes on to toggle the option
KeyToggles(disabled, key) == key \in {"Enter", " "} /\ ~disabled

\* validateFiles: the tests a file has to pass
TypeAccepted(file) == \E i \in 1..Len(acceptedTypes) : acceptedTypes[i] = file.type

\* variant of SizeAccepted: a file of exactly the limit is too large
SizeAccepted_Strict(file) == file.size < SizeLimit

\* validateFiles: the size test, file.size > maxFileSize * 1024 * 1024
SizeAccepted(file) == ~(file.size > SizeLimit)

\* validateFiles: the messages pushed for a rejected file
TypeError(file) ==
  file.name \o ": Invalid file type. Accepted: " \o AcceptedJoined
SizeError(file) ==
  file.name \o ": File too large. Max: " \o ToString(maxFileSize) \o "MB"

\* validateFiles: the forEach over the files from index i on, with the
\* validFiles and errors collected so far
RECURSIVE ValidateFrom(_, _, _)
ValidateFrom(files, i, acc) ==
  IF i > Len(files)
    THEN acc
    ELSE IF ~TypeAccepted(files[i])
      THEN ValidateFrom(files, i + 1,
             [acc EXCEPT !.errors = Append(@, TypeError(files[i]))])
      ELSE IF ~SizeAccepted(files[i])
        THEN ValidateFrom(files, i + 1,
               [acc EXCEPT !.errors = Append(@, SizeError(files[i]))])
        ELSE ValidateFrom(files, i + 1,
               [acc EXCEPT !.validFiles = Append(@, files[i])])

\* validateFiles(files)
validateFiles(files) ==
  ValidateFrom(files, 1, [validFiles |-> << >>, errors |-> << >>])

\* `Maximum ${maxFiles} files allowed`
MaxFilesError == "Maximum " \o ToString(maxFiles) \o " files allowed"

\* field.onChange(items) of a widget
WidgetWrite(items) ==
  /\ wValue' = ArrayValue(items)
  /\ wWrites' = wWrites + 1

\* variant of ExceedsLimit: the files the field holds are not counted
ExceedsLimit_BatchOnly(currentFiles, validFiles) == Len(validFiles) > maxFiles

\* totalFiles > maxFiles
ExceedsLimit(currentFiles, validFiles) ==
  Len(currentFiles) + Len(validFiles) > maxFiles

\* variant of OverLimitErrors: the message replaces the validation errors
OverLimitErrors_Replaced(validationErrors) == << MaxFilesError >>

\* setErrors(validationErrors) followed by
\* setErrors((prev) => [...prev, `Maximum ${maxFiles} files allowed`])
OverLimitErrors(validationErrors) == Append(validationErrors, MaxFilesError)

\* variant of MergedFiles: the batch is put before the files held
MergedFiles_BatchFirst(currentFiles, validFiles) == validFiles \o currentFiles

\* [...currentFiles, ...validFiles]
MergedFiles(currentFiles, validFiles) == currentFiles \o validFiles

\* handleDrop and handleFileSelect after the FileList is known to be there:
\* validation, the maxFiles test and the write
AddFiles(files) ==
  LET v == validateFiles(files)
      currentFiles == CurrentItems(wValue)
  IN  IF ExceedsLimit(currentFiles, v.validFiles)
        THEN /\ wErrors' = OverLimitErrors(v.errors)
             /\ UNCHANGED << wValue, wWrites >>
        ELSE /\ wErrors' = v.errors
             /\ WidgetWrite(MergedFiles(currentFiles, v.validFiles))

\* variant of FilterIndex: the index is counted from 1
FilterIndex_OneBased(currentFiles, index) ==
  LET kept == { i \in 1..Len(currentFiles) : i # index } IN
    [j \in 1..Cardinality(kept) |->
       currentFiles[CHOOSE i \in kept :
                      Cardinality({k \in kept : k < i}) = j - 1]]

\* currentFiles.filter((_, i) => i !== index), index counted from 0
FilterIndex(currentFiles, index) ==
  LET kept == { i \in 1..Len(currentFiles) : i - 1 # index } IN
    [j \in 1..Cardinality(kept) |->
       currentFiles[CHOOSE i \in kept :
                      Cardinality({k \in kept : k < i}) = j - 1]]

\* validateFiles was not called
NotValidated == [validFiles |-> << >>, errors |-> << >>, called |-> FALSE]

\* what validateFiles(files) returned, kept with the operation
Validated(files) ==
  [validFiles |-> validateFiles(files).validFiles,
   errors |-> validateFiles(files).errors, called |-> TRUE]

\* a user operation on the rendered widget c is counted and recorded
Operate(c, op) ==
  /\ component = c
  /\ wStatus = "rendered"
  /\ wOps < MaxWidgetOps
  /\ wOps' = wOps + 1
  /\ wLast' = op

InitWidgets ==
  /\ component \in Widgets
  /\ hasForm \in BOOLEAN
  /\ wDisabled \in BOOLEAN
  /\ wStatus = "unmounted"
  /\ wError = ""
  /\ wValue \in InitialWidgetValues(component)
  /\ wWrites = 0
  /\ wCount = 0
  /\ wErrors = << >>
  /\ isDragOver = FALSE
  /\ wLast = [op |-> "none"]
  /\ wOps = 0
  /\ LookupUnmounted
  /\ autoDetectLocation = FALSE
  /\ geolocationSupported = FALSE
  /\ initialValue = NoValue
  /\ loadPc = "unmounted"
  /\ apiLoaded = FALSE
  /\ locationState = "idle"
  /\ hasRequestedLocation = FALSE
  /\ geoPc = "none"
  /\ attempts = 0
  /\ detected = NoValue
  /\ choseInFlight = FALSE
  /\ timer = FALSE
  /\ elapsed = FALSE
  /\ fieldValue = NoValue
  /\ state = << >>
  /\ effectPending = FALSE
  /\ inflight = << >>
  /\ value = ""
  /\ pendingQuery = FALSE
  /\ allowManualInput = FALSE
  /\ providerErrored = FALSE
  /\ lastWrite = [src |-> "none", opt |-> NoOption, resp |-> NoResponse,
                  val |-> NoValue]
  /\ unhandled = FALSE
  /\ geocodeCalls = 0
  /\ providerInputs = 0
  /\ selects = 0
  /\ typed = 0
  /\ blurs = 0
  /\ lastInput = [action |-> "none", inputValue |-> ""]

\* the first render of the widget: it throws without a form context; with
\* one it renders, and the mount effect of InputBadges sets selectedCount
WidgetRender ==
  /\ wStatus = "unmounted"
  /\ IF ThrowsWithoutForm(component, hasForm)
       THEN /\ wStatus' = "threw"
            /\ wError' = ErrorMessage(component)
            /\ UNCHANGED wCount
       ELSE /\ wStatus' = "rendered"
            /\ wError' = ""
            /\ wCount' = IF component = "InputBadges" /\ wValue.isArray
                           THEN Len(wValue.items) ELSE 0
  /\ UNCHANGED << component, hasForm, wDisabled, wValue, wWrites, wErrors,
                  isDragOver, wLast, wOps >>
  /\ UNCHANGED << addressVars, lookupVars >>

\* InputBadges: a badge is clicked
BadgeClick ==
  /\ \E option \in OptionValues :
       /\ Operate("InputBadges", [op |-> "click", option |-> option])
       /\ IF ClickToggles(wDisabled)
            THEN WidgetWrite(ToggledValues(wValue, option))
            ELSE UNCHANGED << wValue, wWrites >>
  /\ UNCHANGED << component, hasForm, wDisabled, wStatus, wError, wCount,
                  wErrors, isDragOver >>
  /\ UNCHANGED << addressVars, lookupVars >>

\* InputBadges: a key is pressed on a badge
BadgeKeyDown ==
  /\ \E option \in OptionValues, key \in {"Enter", " ", "a"} :
       /\ Operate("InputBadges",
                  [op |-> "key", option |-> option, key |-> key])
       /\ IF KeyToggles(wDisabled, key)
            THEN WidgetWrite(ToggledValues(wValue, option))
            ELSE UNCHANGED << wValue, wWrites >>
  /\ UNCHANGED << component, hasForm, wDisabled, wStatus, wError, wCount,
                  wErrors, isDragOver >>
  /\ UNCHANGED << addressVars, lookupVars >>

\* InputBadges: the Clear all button, shown while selectedCount > 0 and
\* disabled with the widget
BadgesClearAll ==
  /\ wCount > 0
  /\ ~wDisabled
  /\ Operate("InputBadges", [op |-> "clear-all"])
  /\ WidgetWrite(<< >>)
  /\ wCount' = 0
  /\ UNCHANGED << component, hasForm, wDisabled, wStatus, wError, wErrors,
                  isDragOver >>
  /\ UNCHANGED << addressVars, lookupVars >>

\* InputMultiSelect: CreatableSelect onChange(newValue)
MultiSelectChange ==
  /\ \E newValue \in { << >>, << "o1" >>, << "o1", "o2" >> } :
       /\ Operate("InputMultiSelect", [op |-> "change", value |-> newValue])
       /\ WidgetWrite(newValue)
  /\ UNCHANGED << component, hasForm, wDisabled, wStatus, wError, wCount,
                  wErrors, isDragOver >>
  /\ UNCHANGED << addressVars, lookupVars >>

\* MultiImageInput: handleDragOver and handleDragLeave
ImageDrag ==
  /\ \E over \in BOOLEAN :
       /\ Operate("MultiImageInput", [op |-> "drag", over |-> over])
       /\ isDragOver' = over
  /\ UNCHANGED << component, hasForm, wDisabled, wStatus, wError, wValue,
                  wWrites, wCount, wErrors >>
  /\ UNCHANGED << addressVars, lookupVars >>

\* MultiImageInput: handleDrop
ImageDrop ==
  /\ \E files \in FileLists :
       /\ Operate("MultiImageInput",
                  [op |-> "drop", files |-> files,
                   validated |-> IF Len(files) = 0
                                   THEN NotValidated ELSE Validated(files)])
       /\ isDragOver' = FALSE
       /\ IF Len(files) = 0
            THEN UNCHANGED << wValue, wWrites, wErrors >>
            ELSE AddFiles(files)
  /\ UNCHANGED << component, hasForm, wDisabled, wStatus, wError, wCount >>
  /\ UNCHANGED << addressVars, lookupVars >>

\* MultiImageInput: handleFileSelect
ImageFileSelect ==
  /\ \E files \in FileLists :
       /\ Operate("MultiImageInput",
                  [op |-> "file-select", files |-> files,
                   validated |-> Validated(files)])
       /\ AddFiles(files)
  /\ UNCHANGED << component, hasForm, wDisabled, wStatus, wError, wCount,
                  isDragOver >>
  /\ UNCHANGED << addressVars, lookupVars >>

\* MultiImageInput: removeFile(index), index counted from 0
ImageRemove ==
  /\ \E index \in 0..maxFiles :
       /\ Operate("MultiImageInput",
                  [op |-> "remove", index |-> index, before |-> wValue])
       /\ WidgetWrite(FilterIndex(CurrentItems(wValue), index))
       /\ wErrors' = << >>
  /\ UNCHANGED << component, hasForm, wDisabled, wStatus, wError, wCount,
                  isDragOver >>
  /\ UNCHANGED << addressVars, lookupVars >>

\* MultiImageInput: the Clear All button, shown while there are files
ImageClearAll ==
  /\ Len(CurrentItems(wValue)) > 0
  /\ Operate("MultiImageInput", [op |-> "clear-all"])
  /\ WidgetWrite(<< >>)
  /\ UNCHANGED << component, hasForm, wDisabled, wStatus, wError, wCount,
                  wErrors, isDragOver >>
  /\ UNCHANGED << addressVars, lookupVars >>

NextWidgets ==
  \/ WidgetRender
  \/ BadgeClick
  \/ BadgeKeyDown
  \/ BadgesClearAll
  \/ MultiSelectChange
  \/ ImageDrag
  \/ ImageDrop
  \/ ImageFileSelect
  \/ ImageRemove
  \/ ImageClearAll

SpecWidgets == InitWidgets /\ [][NextWidgets]_vars

----------------------------------------------------------------------------
(* The lookup of a validation error: getNestedError *)

\* the paths handed to getNestedError: every text of up to MaxPathLen
\* characters
Paths == UNION { [1..n -> PathChars] : n \in 0..MaxPathLen }

\* path.split("."), from character i on, with the key being read and the
\* keys read so far
RECURSIVE SplitFrom(_, _, _, _)
SplitFrom(chars, i, key, keys) ==
  IF i > Len(chars)
    THEN Append(keys, key)
    ELSE IF chars[i] = "."
      THEN SplitFrom(chars, i + 1, << >>, Append(keys, key))
      ELSE SplitFrom(chars, i + 1, Append(key, chars[i]), keys)

\* path.split(".")
Split(chars) == SplitFrom(chars, 1, << >>, << >>)

\* the value is null or undefined
Nullish(v) == v.kind \in {"undefined", "null"}

\* an expression that evaluates to v, and one that throws a TypeError
Returns(v) == [threw |-> FALSE, val |-> v]
Throws == [threw |-> TRUE, val |-> JsUndefined]

\* current[key]: a TypeError on null and undefined, the property of an
\* object, undefined on a string (no key of the model is a string index)
Index(current, key) ==
  IF Nullish(current)
    THEN Throws
    ELSE IF current.kind = "object" /\ key \in DOMAIN current.props
      THEN Returns(current.props[key])
      ELSE Returns(JsUndefined)

\* variant of OptIndex: the property is read without optional chaining
OptIndex_Plain(current, key) == Index(current, key)

\* current?.[key]
OptIndex(current, key) ==
  IF Nullish(current) THEN Returns(JsUndefined) ELSE Index(current, key)

\* current?.message
MessageOf(current) ==
  IF current.kind = "object" THEN current.message ELSE JsUndefined

\* getNestedError: the for loop from key i on, and the return after it
RECURSIVE Walk(_, _, _)
Walk(current, keys, i) ==
  IF i > Len(keys)
    THEN Returns(MessageOf(current))
    ELSE LET probe == OptIndex(current, keys[i]) IN
           IF probe.threw
             THEN Throws
             ELSE IF probe.val = JsUndefined
               THEN Returns(JsUndefined)
               ELSE LET next == Index(current, keys[i]) IN
                      IF next.threw THEN Throws ELSE Walk(next.val, keys, i + 1)

\* getNestedError(obj, path)
getNestedError(obj, chars) == Walk(obj, Split(chars), 1)

InitLookup ==
  /\ errors \in ErrorsObjects
  /\ path \in Paths
  /\ lookupPc = "ready"
  /\ lookupResult = Returns(JsUndefined)
  /\ component = "AddressInput"
  /\ WidgetsUnmounted
  /\ autoDetectLocation = FALSE
  /\ geolocationSupported = FALSE
  /\ initialValue = NoValue
  /\ loadPc = "unmounted"
  /\ apiLoaded = FALSE
  /\ locationState = "idle"
  /\ hasRequestedLocation = FALSE
  /\ geoPc = "none"
  /\ attempts = 0
  /\ detected = NoValue
  /\ choseInFlight = FALSE
  /\ timer = FALSE
  /\ elapsed = FALSE
  /\ fieldValue = NoValue
  /\ state = << >>
  /\ effectPending = FALSE
  /\ inflight = << >>
  /\ value = ""
  /\ pendingQuery = FALSE
  /\ allowManualInput = FALSE
  /\ providerErrored = FALSE
  /\ lastWrite = [src |-> "none", opt |-> NoOption, resp |-> NoResponse,
                  val |-> NoValue]
  /\ unhandled = FALSE
  /\ geocodeCalls = 0
  /\ providerInputs = 0
  /\ selects = 0
  /\ typed = 0
  /\ blurs = 0
  /\ lastInput = [action |-> "none", inputValue |-> ""]

\* the render calls getNestedError(form?.formState.errors, path)
LookupError ==
  /\ lookupPc = "ready"
  /\ lookupResult' = getNestedError(errors, path)
  /\ lookupPc' = "done"
  /\ UNCHANGED << errors, path >>
  /\ UNCHANGED << addressVars, widgetVars >>

NextLookup == LookupError

SpecLookup == InitLookup /\ [][NextLookup]_vars

----------------------------------------------------------------------------
(* Properties *)

\* the types of the state
TypeOK ==
  /\ autoDetectLocation \in BOOLEAN
  /\ geolocationSupported \in BOOLEAN
  /\ component = "AddressInput"
  /\ loadPc \in {"mount", "loading", "done", "failed"}
  /\ apiLoaded \in BOOLEAN
  /\ locationState \in {"idle", "requesting", "detecting", "geocoding",
                        "success", "error", "denied"}
  /\ geoPc \in {"none", "executor", "position", "geocode"}
  /\ Len(state) <= 1
  /\ attempts \in 0..1
  /\ initialValue \in InitialValues
  /\ Len(inflight) <= geocodeCalls
  /\ selects \in 0..MaxSelects
  /\ typed + blurs \in 0..MaxTyped

\* the first result of the response of the last write
FirstResult == lastWrite.resp.results[1]

\* the last write came from a place resolution that delivered a result
ResolvedWithResult ==
  /\ lastWrite.src = "resolve"
  /\ lastWrite.resp.ok
  /\ Len(lastWrite.resp.results) > 0

\* the last write came from a place resolution that failed
ResolveFailed ==
  /\ lastWrite.src = "resolve"
  /\ (~lastWrite.resp.ok \/ Len(lastWrite.resp.results) = 0)

\* the step is a run of the effect on [state]
EffectRuns == effectPending /\ ~effectPending'

\* C1: in the step in which locationState becomes success, the bound value
\* is the first reverse-geocode result's address and coordinate and the
\* suggestion list state is one synthetic entry with that address as its
\* description.
C1_GeoSuccess ==
  [][ (locationState # "success" /\ locationState' = "success") =>
        /\ lastWrite'.src = "geolocation"
        /\ lastWrite'.resp.status = "OK"
        /\ Len(lastWrite'.resp.results) > 0
        /\ LET r == lastWrite'.resp.results[1] IN
             /\ fieldValue' = [address |-> r.formatted_address,
                               position |-> [lat |-> r.lat, lng |-> r.lng]]
             /\ Len(state') = 1
             /\ state'[1].id = "detected-location"
             /\ state'[1].description = r.formatted_address ]_vars

\* C1 witness: a geolocation attempt has just succeeded.
C1_Witness ==
  /\ locationState = "success"
  /\ lastWrite.src = "geolocation"
  /\ effectPending
  /\ Len(state) = 1
  /\ state[1].description = fieldValue.address
  /\ fieldValue.position = [lat |-> 19, lng |-> 72]

\* C2: a step of the geolocation attempt that does not end in success leaves
\* the bound value and the suggestion list state unchanged, and the step in
\* which the attempt fails sets locationState to idle (never error or
\* denied) and lets no error escape.
C2_GeoFailure ==
  [][ (geoPc' # geoPc /\ locationState' # "success") =>
        /\ UNCHANGED << fieldValue, state, lastWrite, unhandled >>
        /\ (geoPc # "none" /\ geoPc' = "none" => locationState' = "idle")
        /\ locationState' \notin {"error", "denied"} ]_vars

\* C2 witness: an attempt was made and failed.
C2_Witness ==
  /\ hasRequestedLocation
  /\ geoPc = "none"
  /\ locationState = "idle"
  /\ lastWrite.src # "geolocation"

\* C3 as stated: a place resolution that delivers a result writes the first
\* result's address and location, and the position is not the sentinel.
C3_Original ==
  ResolvedWithResult =>
    /\ fieldValue = lastWrite.val
    /\ lastWrite.val = [address |-> FirstResult.formatted_address,
                        position |-> [lat |-> FirstResult.lat,
                                      lng |-> FirstResult.lng]]
    /\ lastWrite.val.position # Sentinel

\* C3 amended: a place resolution that delivers a result writes the first
\* result's address; the position is the first result's location when the
\* result carries one, and the {0,0} sentinel when it does not.
C3_Amended ==
  ResolvedWithResult =>
    /\ fieldValue = lastWrite.val
    /\ lastWrite.val.address = FirstResult.formatted_address
    /\ (FirstResult.hasLocation =>
          lastWrite.val.position = [lat |-> FirstResult.lat,
                                    lng |-> FirstResult.lng])
    /\ (~FirstResult.hasLocation => lastWrite.val.position = Sentinel)

\* C3 witness: a selected suggestion was resolved to a result with a location.
C3_Witness ==
  /\ ResolvedWithResult
  /\ FirstResult.hasLocation
  /\ lastWrite.opt \in Suggestions
  /\ fieldValue = [address |-> "A1", position |-> [lat |-> 18, lng |-> 73]]

\* C4: a place resolution that is rejected or delivers no result writes the
\* suggestion's description with the sentinel position, and no error escapes.
C4_ResolveFallback ==
  ResolveFailed =>
    /\ fieldValue = lastWrite.val
    /\ lastWrite.val = [address |-> lastWrite.opt.description,
                        position |-> Sentinel]
    /\ ~unhandled

\* C4 witness: a rejected resolution has written the fallback value.
C4_Witness ==
  /\ ResolveFailed
  /\ ~lastWrite.resp.ok
  /\ fieldValue = [address |-> "D1", position |-> Sentinel]

\* C5: when the effect hands handleSelect an option whose place identifier
\* is the empty string, the bound value becomes {address: "", position:
\* {0,0}} and geocodeByPlaceId is not called.
C5_EmptySelection ==
  [][ (EffectRuns /\ Len(state) > 0 /\ PlaceIdOf(state[1]) = "") =>
        /\ fieldValue' = [address |-> "", position |-> Sentinel]
        /\ geocodeCalls' = geocodeCalls
        /\ inflight' = inflight ]_vars

\* C5 witness: an option with an empty identifier was handled.
C5_Witness ==
  /\ lastWrite.src = "select-immediate"
  /\ PlaceIdOf(lastWrite.opt) = ""
  /\ fieldValue = [address |-> "", position |-> Sentinel]
  /\ geocodeCalls = 0

\* C6: when the effect runs with an empty list state or with an entry that
\* is not an option object, the bound value becomes {address: undefined,
\* position: {0,0}}, whose address differs from the "" of an empty selection.
C6_NoSelection ==
  [][ (EffectRuns /\ (Len(state) = 0 \/ "placeId" \notin DOMAIN state[1])) =>
        /\ fieldValue' = [address |-> Undefined, position |-> Sentinel]
        /\ fieldValue'.address # ""
        /\ geocodeCalls' = geocodeCalls ]_vars

\* C6 witness: the user cleared the selection and the effect has run.
C6_Witness ==
  /\ lastWrite.src = "effect-empty"
  /\ state = << >>
  /\ ~effectPending
  /\ selects > 0
  /\ fieldValue = [address |-> Undefined, position |-> Sentinel]

\* C7: once the autocomplete provider has reported an error, manual-input
\* mode is and stays enabled, and every typed input change writes the typed
\* text with the sentinel position and makes no geocodeByPlaceId call.
C7_ManualMode ==
  [][ providerErrored =>
        /\ allowManualInput
        /\ allowManualInput'
        /\ (typed' = typed + 1 =>
              /\ lastInput'.action = "input-change"
              /\ fieldValue' = [address |-> lastInput'.inputValue,
                                position |-> Sentinel]
              /\ geocodeCalls' = geocodeCalls
              /\ inflight' = inflight) ]_vars

\* C7 witness: text typed after a provider error is the bound address.
C7_Witness ==
  /\ providerErrored
  /\ lastWrite.src = "manual"
  /\ lastInput = [action |-> "input-change", inputValue |-> "t1"]
  /\ fieldValue = [address |-> "t1", position |-> Sentinel]

\* C8 as stated: once the autocomplete provider has reported an error, no
\* further input is passed on to the provider's input handler.
C8_Original ==
  [][ providerErrored => providerInputs' = providerInputs ]_vars

\* C8 amended: every input event of the search box, before and after a
\* provider error, is passed on to the provider's input handler, which takes
\* it as the query text; manual-input mode does not suppress the query.
C8_Amended ==
  [][ (typed' # typed \/ blurs' # blurs) =>
        /\ providerInputs' = providerInputs + 1
        /\ value' = lastInput'.inputValue
        /\ pendingQuery' = (lastInput'.inputValue # "") ]_vars

\* C8 witness: after a provider error a new query awaits the provider.
C8_Witness ==
  /\ providerErrored
  /\ allowManualInput
  /\ pendingQuery
  /\ value = "t1"
  /\ providerInputs >= 2

\* C9: whenever the places provider is unavailable (the maps API failed to
\* load, or the autocomplete provider reported an error), the component
\* renders the input through which an address can be entered.
C9_Original ==
  (loadPc = "failed" \/ providerErrored) => InputRendered

\* C10: every written value carries a position with lat and lng, and the
\* position is the sentinel in every write without a provider-resolved
\* coordinate.
C10_SentinelPosition ==
  lastWrite.src # "none" =>
    /\ fieldValue = lastWrite.val
    /\ "position" \in DOMAIN lastWrite.val
    /\ DOMAIN lastWrite.val.position = {"lat", "lng"}
    /\ LET resolved ==
             \/ lastWrite.src = "geolocation"
             \/ (ResolvedWithResult /\ FirstResult.hasLocation)
       IN  ~resolved => lastWrite.val.position = Sentinel

\* C10 witness: a resolution whose result lacks a location was written.
C10_Witness ==
  /\ ResolvedWithResult
  /\ ~FirstResult.hasLocation
  /\ fieldValue = [address |-> "A2", position |-> Sentinel]

\* the user has not touched the Select
NoInteraction == selects = 0 /\ typed = 0 /\ blurs = 0

\* a geolocation attempt was started and has ended without success
GeoFailed == attempts > 0 /\ geoPc = "none" /\ locationState # "success"

\* C11: at most one geolocation attempt is started in a mount, none after
\* hasRequestedLocation is set; a failed maps-API load stays failed and is
\* not started again; a failed place resolution ends its call and issues no
\* new one.
C11_NoRetry ==
  [][ /\ attempts' <= 1
      /\ (hasRequestedLocation => attempts' = attempts)
      /\ (loadPc = "failed" => loadPc' = "failed" /\ ~apiLoaded')
      /\ ((Len(inflight') < Len(inflight)
           /\ (~lastWrite'.resp.ok \/ Len(lastWrite'.resp.results) = 0)) =>
            /\ geocodeCalls' = geocodeCalls
            /\ Len(inflight') = Len(inflight) - 1) ]_vars

\* C11 witness: an attempt has failed and everything but hasRequestedLocation
\* would allow the trigger again, yet no timer is armed.
C11_Witness ==
  /\ attempts = 1
  /\ GeoFailed
  /\ locationState = "idle"
  /\ autoDetectLocation
  /\ apiLoaded
  /\ ~Truthy(AddressOf(fieldValue))
  /\ ~timer

\* C12: after a failed maps-API load, a failed geolocation attempt or a
\* failed place resolution no error has escaped and locationState is not an
\* error state.
C12_NoPropagation ==
  (loadPc = "failed" \/ ResolveFailed \/ GeoFailed) =>
    /\ ~unhandled
    /\ locationState \notin {"error", "denied"}

\* C12 witness: the maps-API load was rejected and nothing escaped.
C12_Witness ==
  /\ loadPc = "failed"
  /\ ~apiLoaded
  /\ ~unhandled
  /\ locationState = "idle"

\* C13: a widget rendered without a form context throws the error
\* "<widget> must be used within a FormProvider", is never rendered, and
\* neither handles an operation nor writes a field value.
C13_RequiresForm ==
  (~hasForm /\ wStatus # "unmounted") =>
    /\ wStatus = "threw"
    /\ wError = component \o " must be used within a FormProvider"
    /\ wWrites = 0
    /\ wOps = 0
    /\ wValue \in InitialWidgetValues(component)

\* C13 witness: InputBadges was rendered without a form context and threw.
C13_Witness ==
  /\ component = "InputBadges"
  /\ ~hasForm
  /\ wStatus = "threw"
  /\ wError = "InputBadges must be used within a FormProvider"

\* C14: while InputBadges is disabled, a click on a badge and a key press
\* on a badge leave the field value unchanged and write nothing.
C14_DisabledBadges ==
  [][ (component = "InputBadges" /\ wDisabled /\ wOps' # wOps
       /\ wLast'.op \in {"click", "key"}) =>
        /\ wValue' = wValue
        /\ wWrites' = wWrites ]_vars

\* C14 witness: Enter was pressed on a badge of a disabled InputBadges that
\* holds a value, and nothing was written.
C14_Witness ==
  /\ component = "InputBadges"
  /\ wDisabled
  /\ wLast.op = "key"
  /\ wLast.key = "Enter"
  /\ wValue = ArrayValue(<< "o1" >>)
  /\ wWrites = 0

\* the steps of the flow idle, requesting, detecting, geocoding, success
ForwardSteps ==
  { <<"idle", "requesting">>, <<"requesting", "detecting">>,
    <<"detecting", "geocoding">>, <<"geocoding", "success">> }

\* the states of an attempt in flight
InFlightStates == { "requesting", "detecting", "geocoding" }

\* C15 as stated: locationState changes only along idle, requesting,
\* detecting, geocoding, success or error, and the flow ends in success or
\* error.
C15_Original ==
  [][ /\ (locationState' # locationState =>
            << locationState, locationState' >> \in
              ForwardSteps \cup { << s, "error" >> : s \in InFlightStates })
      /\ ((geoPc # "none" /\ geoPc' = "none") =>
            locationState' \in {"success", "error"}) ]_vars

\* C15 amended: locationState changes only along idle, requesting,
\* detecting, geocoding, success, each entered from its predecessor, or from
\* requesting, detecting or geocoding back to idle; the flow ends in success
\* or idle, and error and denied are never entered.
C15_Amended ==
  [][ /\ (locationState' # locationState =>
            << locationState, locationState' >> \in
              ForwardSteps \cup { << s, "idle" >> : s \in InFlightStates })
      /\ locationState' \notin {"error", "denied"}
      /\ ((geoPc # "none" /\ geoPc' = "none") =>
            locationState' \in {"success", "idle"}) ]_vars

\* C15 witness: a flow has run through all its states to success.
C15_Witness ==
  /\ attempts = 1
  /\ geoPc = "none"
  /\ locationState = "success"
  /\ hasRequestedLocation

C17_AutoTriggerStarts ==
  (autoDetectLocation /\ apiLoaded /\ ~Truthy(AddressOf(fieldValue))
     /\ NoInteraction)
    ~> (attempts > 0 \/ ~NoInteraction)

\* C17 witness: an attempt was started without any user interaction, after
\* the effect on the list state has run and re-armed the timer.
C17_Witness ==
  /\ attempts = 1
  /\ NoInteraction
  /\ autoDetectLocation
  /\ lastWrite.src \in {"select-immediate", "effect-empty"}
  /\ geoPc = "executor"

\* C18: a pending place resolution leaves the pending calls only by
\* settling, and then writes its own result to the bound field, whatever was
\* selected since; selecting issues a new call and cancels none.
C18_NoCancellation ==
  [][ inflight' # inflight =>
        \/ (Len(state) > 0 /\ inflight' = Append(inflight, state[1]))
        \/ \E i \in 1..Len(inflight) :
             /\ inflight' = RemoveAt(inflight, i)
             /\ lastWrite'.src = "resolve"
             /\ lastWrite'.opt = inflight[i]
             /\ fieldValue' = SelectResolved(inflight[i], lastWrite'.resp).val
      ]_vars

\* C18 witness: s2 was selected while the resolution of s1 was pending, the
\* resolution of s1 settled last, and the bound value is the result of s1.
C18_Witness ==
  /\ selects = 2
  /\ geocodeCalls = 2
  /\ inflight = << >>
  /\ Len(state) = 1
  /\ state[1].id = "s2"
  /\ lastWrite.src = "resolve"
  /\ lastWrite.opt.id = "s1"
  /\ fieldValue = [address |-> "D1", position |-> Sentinel]

\* C19: the suggestion list state never holds more than one entry; a
\* selection sets it to the one selected suggestion, a clear empties it and a
\* geolocation success sets it to the one synthetic entry.
C19_AtMostOneEntry ==
  [][ /\ Len(state) <= 1
      /\ Len(state') <= 1
      /\ (selects' # selects =>
            \/ state' = << >>
            \/ (Len(state') = 1 /\ state'[1] \in Suggestions))
      /\ ((locationState # "success" /\ locationState' = "success") =>
            /\ Len(state') = 1
            /\ state'[1].id = "detected-location") ]_vars

\* C19 witness: a second suggestion was selected and the list holds it alone.
C19_Witness ==
  /\ selects = 2
  /\ Len(state) = 1
  /\ state[1] \in Suggestions
  /\ effectPending

\* C20: mounted on a field with a non-empty address, with no user
\* interaction and no geolocation attempt, the bound address stays the
\* initial address.
C20_Original ==
  (Truthy(AddressOf(initialValue)) /\ NoInteraction /\ attempts = 0) =>
    AddressOf(fieldValue) = AddressOf(initialValue)

\* the keys of a path: the texts between its dots, which hold no dot and give
\* the path back when joined by dots
RECURSIVE JoinKeys(_)
JoinKeys(keys) ==
  IF Len(keys) = 1
    THEN keys[1]
    ELSE keys[1] \o << "." >> \o JoinKeys(Tail(keys))

\* the node the keys lead to from a node, and whether every key was there
RECURSIVE NodeAt(_, _)
NodeAt(node, keys) ==
  IF keys = << >>
    THEN [found |-> TRUE, node |-> node]
    ELSE IF node.kind = "object" /\ keys[1] \in DOMAIN node.props
      THEN NodeAt(node.props[keys[1]], Tail(keys))
      ELSE [found |-> FALSE, node |-> JsUndefined]

\* C21: getNestedError never throws; the keys it follows are the texts
\* between the dots of the path; it returns the message of the node these
\* keys lead to, and undefined when the errors object is absent, when a key
\* is missing on the way, or when the node reached has no message.
C21_NestedError ==
  lookupPc = "done" =>
    LET keys == Split(path)
        reached == NodeAt(errors, keys)
    IN  /\ ~lookupResult.threw
        /\ Len(keys) >= 1
        /\ JoinKeys(keys) = path
        /\ \A i \in 1..Len(keys) : \A j \in 1..Len(keys[i]) : keys[i][j] # "."
        /\ (Nullish(errors) => lookupResult.val = JsUndefined)
        /\ (~reached.found => lookupResult.val = JsUndefined)
        /\ (reached.found =>
              lookupResult.val =
                IF reached.node.kind = "object"
                  THEN reached.node.message ELSE JsUndefined)

\* C21 witness: the path a.b was followed through two objects to the
\* message of the nested field error.
C21_Witness ==
  /\ lookupPc = "done"
  /\ path = << "a", ".", "b" >>
  /\ errors = Obj(JsUndefined, KeyA :> Obj(Str("m1"), KeyB :> FieldError("m2")))
  /\ lookupResult = [threw |-> FALSE, val |-> Str("m2")]

\* C22: once a geolocation attempt has succeeded and the effect and every
\* place resolution have completed, with no user input, the bound value is
\* the value that was detected.
C22_Original ==
  (locationState = "success" /\ NoInteraction /\ ~effectPending
     /\ inflight = << >>) =>
    fieldValue = detected

\* C23: the completion of a geolocation attempt during which the user chose
\* an address leaves the bound value and the suggestion list state as they
\* are.
C23_Original ==
  [][ (choseInFlight /\ geoPc = "geocode" /\ geoPc' = "none") =>
        /\ fieldValue' = fieldValue
        /\ state' = state ]_vars

\* the step is a drop or a file selection on MultiImageInput
AddsFiles == wOps' # wOps /\ wLast'.op \in {"drop", "file-select"}

\* a file of an accepted type and of at most maxFileSize MB
IsValidFile(f) ==
  /\ f.type \in {"image/jpeg", "image/jpg", "image/png", "image/webp"}
  /\ f.size <= maxFileSize * 1024 * 1024

\* the valid files of a batch, in the order of the batch
ValidOf(files) == SelectSeq(files, IsValidFile)

\* the rejected files of a batch, in the order of the batch
RejectedOf(files) == SelectSeq(files, LAMBDA f : ~IsValidFile(f))

\* the one message of a rejected file: the type is tested before the size
MessageFor(f) ==
  IF f.type \notin {"image/jpeg", "image/jpg", "image/png", "image/webp"}
    THEN f.name
           \o ": Invalid file type. Accepted: image/jpeg, image/jpg, image/png, image/webp"
    ELSE f.name \o ": File too large. Max: " \o ToString(maxFileSize) \o "MB"

\* the messages of the rejected files of a batch
MessagesOf(files) ==
  [i \in 1..Len(RejectedOf(files)) |-> MessageFor(RejectedOf(files)[i])]

\* the batch, added to the files held, stays within maxFiles
WithinLimit(v, files) ==
  Len(CurrentItems(v)) + Len(ValidOf(files)) <= maxFiles

\* C24: the field value of MultiImageInput never holds more than maxFiles
\* entries, whatever is dropped, selected, removed or cleared.
C24_AtMostMaxFiles ==
  component = "MultiImageInput" => Len(CurrentItems(wValue)) <= maxFiles

\* C24 witness: the field holds maxFiles entries and a further batch was
\* turned down.
C24_Witness ==
  /\ component = "MultiImageInput"
  /\ Len(CurrentItems(wValue)) = maxFiles
  /\ wLast.op \in {"drop", "file-select"}
  /\ Len(wLast.validated.validFiles) > 0
  /\ Len(wErrors) > 0
  /\ wErrors[Len(wErrors)] = MaxFilesError

\* C25: a drop or file selection whose valid files, added to the files held,
\* exceed maxFiles leaves the field value unchanged, writes nothing, and sets
\* the error list to the batch's validation errors followed by
\* "Maximum <maxFiles> files allowed".
C25_OverLimit ==
  [][ (AddsFiles /\ ~WithinLimit(wValue, wLast'.files)) =>
        /\ wValue' = wValue
        /\ wWrites' = wWrites
        /\ wErrors' =
             Append(MessagesOf(wLast'.files),
                    "Maximum " \o ToString(maxFiles) \o " files allowed") ]_vars

\* C25 witness: a batch with a rejected file and a valid one was turned down
\* although the field held fewer than maxFiles entries before, or held
\* maxFiles entries; the error list is the rejection followed by the limit
\* message.
C25_Witness ==
  /\ component = "MultiImageInput"
  /\ wLast.op = "drop"
  /\ Len(wLast.validated.validFiles) = 1
  /\ Len(wLast.validated.errors) = 1
  /\ Len(wErrors) = 2
  /\ wErrors[1] = wLast.validated.errors[1]
  /\ wErrors[2] = MaxFilesError
  /\ wValue.isArray

\* C26: validateFiles puts every file into exactly one of validFiles and
\* errors: the valid files are the files of an accepted type and of a size of
\* at most maxFileSize MB, in the order of the input, and the errors are one
\* message per rejected file, the type message whenever the type is not
\* accepted.
C26_Validation ==
  (wLast.op \in {"drop", "file-select"} /\ wLast.validated.called) =>
    /\ wLast.validated.validFiles = ValidOf(wLast.files)
    /\ wLast.validated.errors = MessagesOf(wLast.files)
    /\ Len(wLast.validated.validFiles) + Len(wLast.validated.errors)
         = Len(wLast.files)

\* C26 witness: a batch of a file of a rejected type that is also too large
\* and a file of exactly the size limit was validated: one type message,
\* and the file of the limit size is valid.
C26_Witness ==
  /\ wLast.op = "drop"
  /\ wLast.validated.called
  /\ Len(wLast.files) = 2
  /\ wLast.files[1].type = "image/gif"
  /\ wLast.files[1].size > SizeLimit
  /\ wLast.files[2].size = SizeLimit
  /\ wLast.validated.validFiles = << wLast.files[2] >>
  /\ Len(wLast.validated.errors) = 1

\* C27 as stated: every drop and every file selection within the limit sets
\* the field to the files held (none for a value that is no array) followed
\* by the batch's valid files, and sets the error list to the batch's errors.
C27_Original ==
  [][ (AddsFiles /\ WithinLimit(wValue, wLast'.files)) =>
        /\ wValue' = ArrayValue(CurrentItems(wValue) \o ValidOf(wLast'.files))
        /\ wErrors' = MessagesOf(wLast'.files) ]_vars

\* C27 amended: a file selection, and a drop that carries at least one file,
\* within the limit sets the field to the files held (none for a value that
\* is no array) followed by the batch's valid files and sets the error list
\* to the batch's errors; a drop that carries no file writes nothing and
\* leaves the field value and the error list as they are.
C27_Amended ==
  [][ /\ (AddsFiles /\ WithinLimit(wValue, wLast'.files)
           /\ (wLast'.op = "file-select" \/ Len(wLast'.files) > 0)) =>
            /\ wValue' = ArrayValue(CurrentItems(wValue)
                                     \o ValidOf(wLast'.files))
            /\ wWrites' = wWrites + 1
            /\ wErrors' = MessagesOf(wLast'.files)
      /\ (AddsFiles /\ wLast'.op = "drop" /\ Len(wLast'.files) = 0) =>
            /\ wValue' = wValue
            /\ wWrites' = wWrites
            /\ wErrors' = wErrors ]_vars

\* C27 witness: a batch of a rejected and a valid file was dropped on a
\* field that held one file; the valid file follows the file held and the
\* error list is the one rejection.
C27_Witness ==
  /\ component = "MultiImageInput"
  /\ wLast.op = "drop"
  /\ Len(wLast.files) = 2
  /\ ~IsValidFile(wLast.files[1])
  /\ IsValidFile(wLast.files[2])
  /\ wValue.isArray
  /\ Len(wValue.items) = 2
  /\ wValue.items[2] = wLast.files[2]
  /\ wValue.items[1] # wLast.files[2]
  /\ wErrors = wLast.validated.errors
  /\ Len(wErrors) = 1

\* the sequence s without the entry at the 0-based index, and s itself for
\* an index out of range
Without(s, index) ==
  IF index \in 0..(Len(s) - 1)
    THEN SubSeq(s, 1, index) \o SubSeq(s, index + 2, Len(s))
    ELSE s

\* C28: removeFile(index) sets the field to the files held without the entry
\* at that index, the others in their order, and empties the error list; an
\* index out of range leaves the entries as they are.
C28_RemoveFile ==
  [][ (wOps' # wOps /\ wLast'.op = "remove") =>
        /\ wValue' = ArrayValue(Without(CurrentItems(wValue), wLast'.index))
        /\ wWrites' = wWrites + 1
        /\ wErrors' = << >> ]_vars

\* C28 witness: the first of two different files was removed and the second
\* is left.
C28_Witness ==
  /\ component = "MultiImageInput"
  /\ wLast.op = "remove"
  /\ wLast.index = 0
  /\ wLast.before.isArray
  /\ Len(wLast.before.items) = 2
  /\ wLast.before.items[1] # wLast.before.items[2]
  /\ wValue = ArrayValue(<< wLast.before.items[2] >>)
  /\ wErrors = << >>

====
